---------------------------- MODULE Spec2Model ----------------------------
(***************************************************************************)
(* A state-machine model of rye's self-bootstrap core                      *)
(* (rye/src/bootstrap.rs): the self-update gate (is_up_to_date,            *)
(* ensure_self_venv), the environment build (do_update), the shim          *)
(* publication (update_core_shims), the toolchain fetch (fetch,            *)
(* check_hash, download_url) and the Linux library validation.             *)
(*                                                                         *)
(* Optional values (Rust's Option, an absent file) are sets: {} is None    *)
(* or "no such file", {x} is Some(x) or a file holding x.  Text that the   *)
(* code parses (the marker, a URL) is a sequence of one-character strings. *)
(***************************************************************************)
EXTENDS Integers, Sequences, FiniteSets

None == {}
Some(x) == {x}
Get(o) == CHOOSE x \in o : TRUE

(***************************************************************************)
(* Text helpers                                                            *)
(***************************************************************************)
Digits == <<"0", "1", "2", "3", "4", "5", "6", "7", "8", "9">>

IsDigit(c) == \E i \in 1..10 : Digits[i] = c

DigitVal(c) == (CHOOSE i \in 1..10 : Digits[i] = c) - 1

RECURSIVE DigitsValue(_)
DigitsValue(s) ==
    IF s = <<>> THEN 0
    ELSE 10 * DigitsValue(SubSeq(s, 1, Len(s) - 1)) + DigitVal(s[Len(s)])

\* u64::from_str: an optional leading "+", then one or more decimal digits and
\* nothing else (no sign "-", no whitespace).  {} is Err, {n} is Ok(n).
ParseU64(s) ==
    LET body == IF s # <<>> /\ s[1] = "+" THEN Tail(s) ELSE s
    IN  IF body # <<>> /\ \A i \in 1..Len(body) : IsDigit(body[i])
        THEN Some(DigitsValue(body))
        ELSE None

\* u64::to_string: the decimal digits, no sign, no leading zero.
RECURSIVE to_string(_)
to_string(n) ==
    IF n < 10 THEN <<Digits[n + 1]>>
    ELSE Append(to_string(n \div 10), Digits[(n % 10) + 1])

\* str::starts_with
starts_with(s, prefix) ==
    Len(s) >= Len(prefix) /\ SubSeq(s, 1, Len(prefix)) = prefix

(***************************************************************************)
(* Program constants                                                       *)
(***************************************************************************)
SELF_VERSION == 3

\* SELF_PYTHON_VERSION: cpython 3.10, patch unspecified.
SELF_PYTHON_VERSION == [major |-> 3, minor |-> Some(10), patch |-> None]

\* CommandOutput
Outputs == {"Quiet", "Normal", "Verbose"}

\* The build targets the cfg attributes tell apart: linux (unix and
\* target_os = "linux"), macos (unix, not linux), windows.
Platforms == {"linux", "macos", "windows"}

HttpsScheme == <<"h", "t", "t", "p", "s", ":", "/", "/">>

(***************************************************************************)
(* Toolchain versions and the known-builds table                           *)
(***************************************************************************)
V3_8_1 == [major |-> 3, minor |-> 8, patch |-> 1]
V3_9_16 == [major |-> 3, minor |-> 9, patch |-> 16]
V3_10_8 == [major |-> 3, minor |-> 10, patch |-> 8]
V3_10_9 == [major |-> 3, minor |-> 10, patch |-> 9]
V3_11_1 == [major |-> 3, minor |-> 11, patch |-> 1]

\* Every version an install directory may exist for.
Versions == {V3_8_1, V3_9_16, V3_10_8, V3_10_9, V3_11_1}

UrlSecure(c) == HttpsScheme \o <<c>>
UrlPlain(c) == <<"h", "t", "t", "p", ":", "/", "/", c>>

\* The digest of each archive the model downloads (sha2 + hex::encode): distinct
\* contents have distinct digests.
Sha256Hex(content) ==
    CASE content = "cpython-3.9.16.tar" -> "51c7"
      [] content = "cpython-3.10.8.tar" -> "77a2"
      [] content = "cpython-3.10.9.tar" -> "9f3a"
      [] content = "cpython-3.11.1.tar" -> "c0de"
      [] OTHER -> "e3b0"

\* The known-builds table behind get_download_url: 3.10 has two builds, 3.11.1
\* has no digest, 3.9.16 is only listed with a plain-http address, 3.8 has no
\* build at all.
KnownBuilds ==
    { [version |-> V3_10_8, url |-> UrlSecure("a"), sha256 |-> Some("77a2")],
      [version |-> V3_10_9, url |-> UrlSecure("b"), sha256 |-> Some("9f3a")],
      [version |-> V3_11_1, url |-> UrlSecure("c"), sha256 |-> None],
      [version |-> V3_9_16, url |-> UrlPlain("d"), sha256 |-> Some("51c7")] }

\* What the server of an address holds.
Genuine(url) ==
    CASE url = UrlSecure("a") -> "cpython-3.10.8.tar"
      [] url = UrlSecure("b") -> "cpython-3.10.9.tar"
      [] url = UrlSecure("c") -> "cpython-3.11.1.tar"
      [] url = UrlPlain("d") -> "cpython-3.9.16.tar"
      [] OTHER -> "page"

Matches(req, v) ==
    /\ req.major = v.major
    /\ req.minor \in {None, Some(v.minor)}
    /\ req.patch \in {None, Some(v.patch)}

Newer(a, b) ==
    \/ a.major > b.major
    \/ a.major = b.major /\ a.minor > b.minor
    \/ a.major = b.major /\ a.minor = b.minor /\ a.patch > b.patch

\* sources::get_download_url: the newest known build matching every specified
\* field of the request.
get_download_url(req) ==
    LET cands == {e \in KnownBuilds : Matches(req, e.version)}
    IN  IF cands = {} THEN None
        ELSE Some(CHOOSE e \in cands :
                    \A o \in cands : o = e \/ Newer(e.version, o.version))

\* PythonVersion::try_from(PythonVersionRequest): only a fully specified request
\* is a version.
try_from(req) ==
    IF req.minor # None /\ req.patch # None
    THEN Some([major |-> req.major, minor |-> Get(req.minor),
               patch |-> Get(req.patch)])
    ELSE None

\* py[v] is the state of the install directory of version v: "absent", "dir"
\* (the directory exists, the interpreter binary does not) or "installed" (the
\* binary exists at its path inside the directory).
target_dir_is_dir(py, v) == py[v] # "absent"
py_bin_is_file(py, v) == py[v] = "installed"

(***************************************************************************)
(* download_url, check_hash, fetch                                         *)
(***************************************************************************)
\* What one transfer meets: a transport error, or a response with a status code
\* and a body (what the server holds, or something else).
NetOutcomes ==
    {[kind |-> "transport_error", code |-> 0, genuine |-> FALSE]}
    \cup {[kind |-> "response", code |-> c, genuine |-> TRUE] :
            c \in {199, 200, 299, 300}}
    \cup {[kind |-> "response", code |-> 200, genuine |-> FALSE]}

\* is_secure_url testing for "http" alone.
is_secure_url_http(url) == starts_with(url, <<"h", "t", "t", "p">>)

\* download_url's guard: only https addresses are fetched.
is_secure_url(url) == starts_with(url, HttpsScheme)

\* download_url(url, output): ok with the bytes, or an error; netio tells whether
\* the transfer was performed, proxy which proxy the handle was given
\* (config.https_proxy_url(), if there is one).
download_url(url, net, https_proxy_url) ==
    IF ~is_secure_url(url)
    THEN [url |-> url, ok |-> FALSE, bytes |-> None, netio |-> FALSE,
          proxy |-> None]
    ELSE IF net.kind = "transport_error"
    THEN [url |-> url, ok |-> FALSE, bytes |-> None, netio |-> TRUE,
          proxy |-> https_proxy_url]
    ELSE IF ~(200 <= net.code /\ net.code < 300)
    THEN [url |-> url, ok |-> FALSE, bytes |-> None, netio |-> TRUE,
          proxy |-> https_proxy_url]
    ELSE [url |-> url, ok |-> TRUE, netio |-> TRUE, proxy |-> https_proxy_url,
          bytes |-> Some(IF net.genuine THEN Genuine(url) ELSE "tampered")]

\* check_hash that never fails.
check_hash_always_ok(content, hash) == TRUE

\* check_hash(content, hash): TRUE is Ok(()), FALSE is the "hash mismatch" error.
check_hash(content, hash) == Sha256Hex(content) = hash

\* already_downloaded testing the directory alone.
already_downloaded_dir_only(py, v) == target_dir_is_dir(py, v)

\* fetch's second cache test, on the resolved version.
already_downloaded(py, v) == target_dir_is_dir(py, v) /\ py_bin_is_file(py, v)

\* report_hash_skipped as a verbose-only line.
report_hash_skipped_verbose(output) == output = "Verbose"

\* The verbosity guards of fetch's status lines.
not_quiet(output) == output # "Quiet"
report_hash_skipped(output) == output # "Quiet"

Line(cond, text) == IF cond THEN <<text>> ELSE <<>>

FetchResult(ok, version, py, events, msgs, dl) ==
    [ok |-> ok, version |-> version, py |-> py, events |-> events,
     msgs |-> msgs, dl |-> dl]

\* utils::unpack_archive(bytes, target_dir, 1) on the install directory of v:
\* every entry is written and the binary is at its path, or the call fails and
\* the directory is left without a runnable binary.
unpack_archive(py, v, unpack_ok) ==
    [py EXCEPT ![v] = IF unpack_ok THEN "installed" ELSE "dir"]

\* The tail of fetch, once the bytes are there: the integrity check, then the
\* extraction.
fetch_install(e, output, py1, io, dl, msgs2) ==
    LET v == e.version
        bytes == Get(dl.bytes)
        hashed == e.sha256 # None
        ev3 == <<"create_dir_all", "download_url">> \o Line(hashed, "check_hash")
        msgs3 == msgs2 \o
                 (IF hashed THEN Line(not_quiet(output), "Checking hash")
                  ELSE Line(report_hash_skipped(output), "hash check skipped"))
    IN  IF hashed /\ ~check_hash(bytes, Get(e.sha256))
        THEN FetchResult(FALSE, None, py1, ev3, msgs3, Some(dl))
        ELSE IF ~io.unpack_ok
        THEN FetchResult(FALSE, None, unpack_archive(py1, v, FALSE),
                         ev3 \o <<"unpack_archive">>, msgs3, Some(dl))
        ELSE FetchResult(TRUE, Some(v), unpack_archive(py1, v, TRUE),
                         ev3 \o <<"unpack_archive">>,
                         msgs3 \o Line(not_quiet(output), "success"), Some(dl))

\* lookup_build trying again with the major version alone.
lookup_build_retry(req) ==
    IF get_download_url(req) # None THEN get_download_url(req)
    ELSE get_download_url([req EXCEPT !.minor = None, !.patch = None])

\* match get_download_url(version, OS, ARCH): the build to download, or None
\* for the bail!("unknown version").
lookup_build(req) == get_download_url(req)

\* fetch(version, output) on the install directories py, with the outcomes io of
\* the calls it makes: io.mkdir_ok (create_dir_all of a directory that does not
\* exist yet), io.net (the transfer), io.unpack_ok (unpack_archive), and
\* io.proxy (what Config::current() holds as HTTPS proxy).
fetch(req, output, py, io) ==
    LET direct == try_from(req)
        skipped == Line(output = "Verbose", "already downloaded")
    IN  IF direct # None /\ py_bin_is_file(py, Get(direct))
        THEN FetchResult(TRUE, direct, py, <<"cache_hit">>, skipped, None)
        ELSE LET found == lookup_build(req)
        IN  IF found = None
            THEN FetchResult(FALSE, None, py, <<>>, <<>>, None)
            ELSE LET e == Get(found)
                     v == e.version
                     msgs1 == Line(output = "Verbose", "target dir")
            IN  IF already_downloaded(py, v)
                THEN FetchResult(TRUE, Some(v), py, <<"cache_hit">>,
                                 msgs1 \o skipped, None)
                ELSE IF py[v] = "absent" /\ ~io.mkdir_ok
                THEN FetchResult(FALSE, None, py, <<"create_dir_all">>, msgs1,
                                 None)
                ELSE LET py1 == [py EXCEPT ![v] = IF @ = "absent" THEN "dir"
                                                   ELSE @]
                         msgs2 == msgs1 \o Line(output = "Verbose", "download url")
                                        \o Line(not_quiet(output), "Downloading")
                         dl == download_url(e.url, io.net, io.proxy)
                IN  IF ~dl.ok
                    THEN FetchResult(FALSE, None, py1,
                                     <<"create_dir_all", "download_url">>, msgs2,
                                     Some(dl))
                    ELSE fetch_install(e, output, py1, io, dl, msgs2)

(***************************************************************************)
(* update_core_shims                                                       *)
(***************************************************************************)
\* The two entrypoint names of a platform, primary first.
ShimNames(os) ==
    IF os = "windows" THEN <<"python.exe", "pythonw.exe">>
    ELSE <<"python", "python3">>

\* The outcomes of the file-system calls made for one shim: removing an existing
\* file, creating a symbolic link and creating a hard link at a free path.
ShimIO == [rm_ok : BOOLEAN, sym_ok : BOOLEAN, hard_ok : BOOLEAN]

\* fs::remove_file(path).ok(): the error (no such file, no permission, no shims
\* directory) is dropped.
remove_file(files, name, rm_ok) ==
    IF files[name] # None /\ rm_ok THEN [files EXCEPT ![name] = None] ELSE files

\* A link call succeeds only at a free path inside an existing directory.
link_succeeds(dir, files, name, call_ok) == dir /\ files[name] = None /\ call_ok

\* use_softlinks on every unix.
use_softlinks_always(os) == TRUE

\* let use_softlinks = !cfg!(target_os = "linux")
use_softlinks(os) == os # "linux"

\* The link strategies of a platform for one shim, in the order they are tried;
\* a later one is tried only when the ones before it failed.
link_strategies(os) ==
    IF os = "windows" THEN <<"symlink", "hard_link">>
    ELSE IF use_softlinks(os) THEN <<"symlink">>
    ELSE <<"hard_link", "symlink">>

\* One shim: remove what is there, then try the strategies in order.  The result
\* holds the files, the link calls made (in order) and whether it succeeded.
publish_shim(os, dir, files, name, this, io) ==
    LET files1 == remove_file(files, name, io.rm_ok)
        strat == link_strategies(os)
        okOf(k) == link_succeeds(dir, files1, name,
                                 IF k = "symlink" THEN io.sym_ok ELSE io.hard_ok)
        att(k) == [shim |-> name, strategy |-> k, ok |-> okOf(k)]
        made(k) == [files1 EXCEPT ![name] = Some([kind |-> k, target |-> this])]
    IN  IF okOf(strat[1])
        THEN [files |-> made(strat[1]), attempts |-> <<att(strat[1])>>,
              ok |-> TRUE]
        ELSE IF Len(strat) = 1
        THEN [files |-> files1, attempts |-> <<att(strat[1])>>,
              ok |-> FALSE]
        ELSE IF okOf(strat[2])
        THEN [files |-> made(strat[2]),
              attempts |-> <<att(strat[1]), att(strat[2])>>, ok |-> TRUE]
        ELSE [files |-> files1, attempts |-> <<att(strat[1]), att(strat[2])>>,
              ok |-> FALSE]

\* update_core_shims dropping the link errors (.ok() in place of "?").
update_core_shims_unchecked(os, dir, files, this, io1, io2) ==
    LET names == ShimNames(os)
        r1 == publish_shim(os, dir, files, names[1], this, io1)
        r2 == publish_shim(os, dir, r1.files, names[2], this, io2)
    IN  [files |-> r2.files, attempts |-> r1.attempts \o r2.attempts,
         ok |-> TRUE]

\* update_core_shims putting back what was there when a link cannot be made.
update_core_shims_atomic(os, dir, files, this, io1, io2) ==
    LET names == ShimNames(os)
        r1 == publish_shim(os, dir, files, names[1], this, io1)
        r2 == publish_shim(os, dir, r1.files, names[2], this, io2)
    IN  IF ~r1.ok THEN [r1 EXCEPT !.files = files]
        ELSE [files |-> IF r2.ok THEN r2.files ELSE files,
              attempts |-> r1.attempts \o r2.attempts, ok |-> r2.ok]

\* update_core_shims(shims, this): the primary name, then the aliased name; the
\* first failure returns.
update_core_shims(os, dir, files, this, io1, io2) ==
    LET names == ShimNames(os)
        r1 == publish_shim(os, dir, files, names[1], this, io1)
        r2 == publish_shim(os, dir, r1.files, names[2], this, io2)
    IN  IF ~r1.ok THEN r1
        ELSE [files |-> r2.files, attempts |-> r1.attempts \o r2.attempts,
              ok |-> r2.ok]

(***************************************************************************)
(* validate_shared_libraries                                               *)
(***************************************************************************)
Arrow == <<" ", "=", ">", " ">>
NotFound == <<"n", "o", "t", " ", "f", "o", "u", "n", "d">>
IsSpace(c) == c \in {" ", "\t"}

RECURSIVE TrimStart(_)
TrimStart(s) ==
    IF s # <<>> /\ IsSpace(s[1]) THEN TrimStart(Tail(s)) ELSE s

RECURSIVE TrimEnd(_)
TrimEnd(s) ==
    IF s # <<>> /\ IsSpace(s[Len(s)]) THEN TrimEnd(SubSeq(s, 1, Len(s) - 1))
    ELSE s

\* str::trim
trim(s) == TrimEnd(TrimStart(s))

\* str::split_once(" => "): the text before and after the first " => ", if any.
split_once(s) ==
    LET at == {i \in 1..Len(s) : i + 3 <= Len(s) /\ SubSeq(s, i, i + 3) = Arrow}
    IN  IF at = {} THEN None
        ELSE LET i == CHOOSE j \in at : \A k \in at : j <= k
             IN  Some(<<SubSeq(s, 1, i - 1), SubSeq(s, i + 4, Len(s))>>)

\* The loop over ldd's lines: the names reported "not found", each once, in the
\* order of their first line.
RECURSIVE missing_libraries(_, _)
missing_libraries(lines, missing) ==
    IF lines = <<>> THEN missing
    ELSE LET parts == split_once(trim(Head(lines)))
             hit == /\ parts # None
                    /\ Get(parts)[2] = NotFound
                    /\ \A i \in 1..Len(missing) : missing[i] # Get(parts)[1]
         IN  missing_libraries(Tail(lines),
                               IF hit THEN Append(missing, Get(parts)[1])
                               ELSE missing)

\* validate_shared_libraries(py) on ldd's standard output: TRUE is Ok(()).
validate_shared_libraries(stdout) == missing_libraries(stdout, <<>>) = <<>>

\* Characters of library names in the order of their bytes, which is the order
\* of str.
ByteOrder ==
    <<".", "0", "1", "2", "3", "4", "5", "6", "7", "8", "9", "a", "b", "c",
      "d", "e", "f", "g", "h", "i", "j", "k", "l", "m", "n", "o", "p", "q",
      "r", "s", "t", "u", "v", "w", "x", "y", "z">>

ByteOf(c) == CHOOSE i \in 1..Len(ByteOrder) : ByteOrder[i] = c

\* Ord for str: s <= t, comparing byte by byte; a prefix comes first.
RECURSIVE str_le(_, _)
str_le(s, t) ==
    IF s = <<>> THEN TRUE
    ELSE IF t = <<>> THEN FALSE
    ELSE IF s[1] # t[1] THEN ByteOf(s[1]) < ByteOf(t[1])
    ELSE str_le(Tail(s), Tail(t))

\* One name put at its place in a sorted list.
RECURSIVE insert_sorted(_, _)
insert_sorted(name, sorted) ==
    IF sorted = <<>> THEN <<name>>
    ELSE IF str_le(name, Head(sorted)) THEN <<name>> \o sorted
    ELSE <<Head(sorted)>> \o insert_sorted(name, Tail(sorted))

\* Vec::sort on the names.
RECURSIVE sort(_)
sort(names) ==
    IF names = <<>> THEN <<>>
    ELSE insert_sorted(Head(names), sort(Tail(names)))

\* reported_missing printing the names in the order found.
reported_missing_unsorted(stdout) == missing_libraries(stdout, <<>>)

\* The names validate_shared_libraries prints (one "  - <name>" line each)
\* before it bails: none when nothing is missing.
reported_missing(stdout) == sort(missing_libraries(stdout, <<>>))

Resolved(name) == <<"\t">> \o name \o Arrow \o <<"/", "l", "i", "b">>
Unresolved(name) == <<"\t">> \o name \o Arrow \o NotFound

\* What ldd prints for the downloaded interpreter on the machines modelled:
\* nothing, resolved libraries (with a line that has no " => " and a complaint
\* about a symbol version, which says "not found" in another form), a library
\* not found, several not found.
LddOutputs ==
    { <<>>,
      <<Resolved(<<"c">>), <<"\t", "v", "d", "s", "o">>,
        <<"c", ":", " ">> \o NotFound \o <<" ">> >>,
      <<Resolved(<<"c">>), Unresolved(<<"z">>)>>,
      <<Unresolved(<<"z">>), Unresolved(<<"m", "z">>), Unresolved(<<"m">>),
        Unresolved(<<"z">>)>> }

\* Command::new("ldd").arg(py).output(): ldd could not be started (there is no
\* output), or it ran and printed; its exit status is not looked at.
LddRuns ==
    {[spawned |-> FALSE, stdout |-> <<>>]}
    \cup {[spawned |-> TRUE, stdout |-> o] : o \in LddOutputs}

(***************************************************************************)
(* State                                                                   *)
(***************************************************************************)
VARIABLES
    platform,          \* the build target of the running binary
    fs,                \* the managed directory <app_dir>
    FORCED_TO_UPDATE,  \* the process-wide flag
    UP_TO_UPDATE,      \* is_up_to_date's Lazy: "uninit", "true" or "false"
    pc,                \* where the running call of ensure_self_venv stands
    call,              \* the running (or last) call and its arguments
    result,            \* "none", "pending", "ok" or "err"
    hist,              \* what the current and earlier ensure_self_venv calls did
    lastFetch,         \* the fetch made by the current call, if any
    lastShims,         \* the update_core_shims made by the current call, if any
    lastDl,            \* the download_url made by the current call, if any
    https_proxy,       \* Config::current().https_proxy_url()
    cmds,              \* the subprocesses the current call has run, in order
    proc               \* what this process has done so far

vars == <<platform, fs, FORCED_TO_UPDATE, UP_TO_UPDATE, pc, call, result, hist,
          lastFetch, lastShims, lastDl, https_proxy, cmds, proc>>

\* How many tool versions back a marker found at start may be.
MaxStale == 1

\* Markers an older tool left behind: written by the same fs::write of its own
\* SELF_VERSION.
StaleMarkers ==
    {Some(to_string(n)) : n \in (SELF_VERSION - MaxStale)..(SELF_VERSION - 1)}

\* Files of the self environment: "old" belongs to an environment built by an
\* older tool; "venv", "pip" and "deps" are written by the three subprocesses.
OldFiles == {"old"}

\* The executables a shim may be linked to: rye inside the shims folder, the
\* running executable, and the place an earlier installation ran from.
RyeShim == "shims/rye"
CurrentExe == "bin/rye"
Exes == {RyeShim, CurrentExe, "old/rye"}

NoShims(os) == [n \in {ShimNames(os)[1], ShimNames(os)[2]} |-> None]

\* The managed directory before the first call: nothing yet, or the self
\* environment of an older tool (with or without its marker and pip-tools); rye
\* itself may have been installed into the shims folder.
InitFs(os) ==
    { [self_dir |-> d, self_files |-> IF d THEN OldFiles ELSE {},
       marker |-> m, pip_tools |-> t,
       py |-> [v \in Versions |-> "absent"],
       shims_dir |-> r, shims_rye |-> r, shims |-> NoShims(os)] :
      d \in BOOLEAN, m \in StaleMarkers \cup {None}, t \in BOOLEAN,
      r \in BOOLEAN }

\* The toolchains found installed at start: none, or one that an earlier release
\* installed and that the known-builds table no longer lists.
NoToolchains == {}
Delisted == {V3_8_1}

NoCall == [op |-> "none", output |-> "Normal"]

NoHist ==
    [marker0 |-> None, dir0 |-> FALSE, pip_tools0 |-> FALSE, done |-> {},
     prev |-> "none", last_ensure |-> "none", bootstrapped |-> FALSE]

\* The HTTPS proxy of the configuration: none, or one address.
ProxyConfigs == {None, Some("proxy:3128")}

\* A process that has not called is_up_to_date and has written no marker.
NoProc == [marker_reads |-> 0, wrote_marker |-> FALSE]

\* The start of the first process on a machine whose configuration holds one of
\* the given proxy settings.
InitEnv(proxies, toolchains) ==
    /\ platform \in Platforms
    /\ \E f \in InitFs(platform), installed \in toolchains :
         /\ f.self_dir \/ (f.marker = None /\ ~f.pip_tools)
         /\ fs = [f EXCEPT !.py = [v \in Versions |->
                                     IF v \in installed THEN "installed"
                                     ELSE "absent"]]
    /\ FORCED_TO_UPDATE = FALSE
    /\ UP_TO_UPDATE = "uninit"
    /\ pc = "idle"
    /\ call = NoCall
    /\ result = "none"
    /\ hist = NoHist
    /\ lastFetch = None
    /\ lastShims = None
    /\ lastDl = None
    /\ https_proxy \in proxies
    /\ cmds = <<>>
    /\ proc = NoProc

\* The default configuration: no proxy.
Init == InitEnv({None}, {NoToolchains})

(***************************************************************************)
(* The self-update gate                                                    *)
(***************************************************************************)
\* read_marker with map_or(true, ..): a missing marker counts as current.
read_marker_default_true(marker) ==
    marker = None \/ ParseU64(Get(marker)) = Some(SELF_VERSION)

\* The Lazy's initializer: read tool-version.txt and compare.
read_marker(marker) ==
    marker # None /\ ParseU64(Get(marker)) = Some(SELF_VERSION)

\* Whether a dereference of the Lazy runs its initializer, which reads the file.
lazy_reads_marker(lazy) == lazy = "uninit"

\* force_lazy as a plain function: the file is read at every call.
force_lazy_reread(lazy, marker) ==
    IF read_marker(marker) THEN "true" ELSE "false"

\* The Lazy after a dereference: initialized on the first one.
force_lazy(lazy, marker) ==
    IF lazy = "uninit" THEN (IF read_marker(marker) THEN "true" ELSE "false")
    ELSE lazy

\* is_up_to_date without the flag: only the Lazy decides.
is_up_to_date_lazy_only(lazy, forced, marker) ==
    force_lazy(lazy, marker) = "true"

\* is_up_to_date(): *UP_TO_UPDATE || FORCED_TO_UPDATE.load()
is_up_to_date(lazy, forced, marker) ==
    force_lazy(lazy, marker) = "true" \/ forced

(***************************************************************************)
(* ensure_self_venv, step by step                                          *)
(***************************************************************************)
\* BuildSteps with the requirements installed before pip is upgraded.
BuildSteps_deps_first(os) ==
    IF os = "linux"
    THEN <<"fetch", "validate", "venv", "deps", "pip", "shims", "marker">>
    ELSE <<"fetch", "venv", "deps", "pip", "shims", "marker">>

\* The steps of a bootstrap pass after the gate, in the order of the code.
BuildSteps(os) ==
    IF os = "linux"
    THEN <<"fetch", "validate", "venv", "pip", "deps", "shims", "marker">>
    ELSE <<"fetch", "venv", "pip", "deps", "shims", "marker">>

\* The step after a completed one.
next_step(os, step) ==
    LET steps == BuildSteps(os)
        i == CHOOSE j \in 1..Len(steps) : steps[j] = step
    IN  steps[i + 1]

\* "?" or bail!: the call returns the error.
Fail(step) ==
    /\ pc' = "idle"
    /\ result' = "err"
    /\ hist' = [hist EXCEPT !.last_ensure = step]

\* The end of a step: succeeded tells what happened (the subprocess exited zero,
\* the call returned Ok), go_on what the code made of it.
EndStep(step, succeeded, go_on) ==
    IF go_on
    THEN /\ pc' = next_step(platform, step)
         /\ result' = result
         /\ hist' = [hist EXCEPT
                       !.done = IF succeeded THEN @ \cup {step} ELSE @]
    ELSE Fail(step)

SubprocessOutcomes == {"spawn_error", "exit_nonzero", "exit_zero"}

\* Command::new(program): the command as built, with the proxy variables of its
\* environment (none yet).
Command(prog) == [prog |-> prog, proxy |-> None]

\* utils::set_proxy_variables(cmd): the HTTPS proxy of the configuration, if
\* there is one, is put into the environment of the command.
set_proxy_variables(cmd, https_proxy_url) ==
    [cmd EXCEPT !.proxy = https_proxy_url]

\* Lines 109-121: python -mvenv --upgrade-deps <venv_dir>
venv_cmd(https_proxy_url) ==
    set_proxy_variables(Command("venv"), https_proxy_url)

\* Lines 144-153: pip install --upgrade pip
pip_upgrade_cmd(https_proxy_url) == Command("pip_upgrade")

\* Lines 162-176: pip install -r <requirements>
pip_install_cmd(https_proxy_url) ==
    set_proxy_variables(Command("pip_install"), https_proxy_url)

\* A command that was run (Command::status, Command::output) and how it ended.
Ran(cmd, outcome) == [cmd |-> cmd, outcome |-> outcome]

\* subprocess_ok without the check of the exit status.
subprocess_ok_no_status(outcome) == outcome # "spawn_error"

\* Command::status() with "?", then the bail! on !status.success(): whether the
\* pass goes on after a subprocess.
subprocess_ok(outcome) == outcome # "spawn_error" /\ outcome = "exit_zero"

\* ensure_self_venv(output) is entered.
CallEnsure ==
    /\ pc = "idle"
    /\ \E out \in Outputs : call' = [op |-> "ensure", output |-> out]
    /\ pc' = "gate"
    /\ result' = "pending"
    /\ hist' = [hist EXCEPT !.marker0 = fs.marker, !.dir0 = fs.self_dir,
                            !.pip_tools0 = fs.pip_tools,
                            !.done = {}, !.prev = hist.last_ensure]
    /\ lastFetch' = None /\ lastShims' = None /\ lastDl' = None
    /\ cmds' = <<>>
    /\ UNCHANGED <<platform, fs, FORCED_TO_UPDATE, UP_TO_UPDATE, https_proxy,
                   proc>>

\* remove_self patching in place: only the marker is deleted.
remove_self_marker_only(f) == [f EXCEPT !.marker = None]

\* fs::remove_dir_all(&venv_dir) succeeded: nothing of the directory is left.
remove_self(f) ==
    [f EXCEPT !.self_dir = FALSE, !.self_files = {}, !.marker = None]

\* fs::remove_dir_all(&venv_dir) failed: before or after deleting entries.
remove_self_failed(f) ==
    {f, [f EXCEPT !.self_files = {}, !.marker = None]}

\* remove_pip_tools leaving the directory in place.
remove_pip_tools_kept(f) == f

\* fs::remove_dir_all(&pip_tools_dir) succeeded (or there was no such
\* directory).
remove_pip_tools(f) == [f EXCEPT !.pip_tools = FALSE]

\* Lines 75-88: the gate, and the removal of a stale environment.
EnsureGate ==
    /\ pc = "gate"
    /\ lastFetch' = None /\ lastShims' = None /\ lastDl' = None
    /\ UNCHANGED <<platform, FORCED_TO_UPDATE, call, https_proxy, cmds>>
    /\ IF ~fs.self_dir
       THEN /\ pc' = "fetch"
            /\ UNCHANGED <<fs, UP_TO_UPDATE, result, hist, proc>>
       ELSE /\ UP_TO_UPDATE' = force_lazy(UP_TO_UPDATE, fs.marker)
            /\ proc' = [proc EXCEPT !.marker_reads =
                          IF lazy_reads_marker(UP_TO_UPDATE) THEN @ + 1 ELSE @]
            /\ IF is_up_to_date(UP_TO_UPDATE, FORCED_TO_UPDATE, fs.marker)
               THEN /\ pc' = "idle"
                    /\ result' = "ok"
                    /\ hist' = [hist EXCEPT !.last_ensure = "ok"]
                    /\ fs' = fs
               ELSE \/ /\ fs' \in remove_self_failed(fs)
                       /\ Fail("remove_self")
                    \/ /\ fs.pip_tools
                       /\ fs' = remove_self(fs)
                       /\ Fail("remove_pip_tools")
                    \/ /\ fs' = remove_pip_tools(remove_self(fs))
                       /\ pc' = "fetch"
                       /\ UNCHANGED <<result, hist>>

\* What fetch's calls may meet, under the configuration of the process.
FetchIO ==
    [mkdir_ok : BOOLEAN, net : NetOutcomes, unpack_ok : BOOLEAN,
     proxy : {https_proxy}]

\* Line 94-100: fetch(&SELF_PYTHON_VERSION, output)?
EnsureFetch ==
    /\ pc = "fetch"
    /\ \E io \in FetchIO :
         LET r == fetch(SELF_PYTHON_VERSION, call.output, fs.py, io)
         IN  /\ fs' = [fs EXCEPT !.py = r.py]
             /\ lastFetch' = Some([req |-> SELF_PYTHON_VERSION,
                                   output |-> call.output, py0 |-> fs.py,
                                   r |-> r])
             /\ lastDl' = r.dl
             /\ EndStep("fetch", r.ok, r.ok)
    /\ UNCHANGED <<platform, FORCED_TO_UPDATE, UP_TO_UPDATE, call, lastShims,
                   https_proxy, cmds, proc>>

\* Lines 103-106 (linux only): validate_shared_libraries(&py_bin)?
EnsureValidate ==
    /\ pc = "validate"
    /\ \E out \in LddRuns :
         LET valid == out.spawned /\ validate_shared_libraries(out.stdout)
         IN  /\ cmds' = Append(cmds,
                          [cmd |-> Command("ldd"),
                           outcome |-> IF out.spawned THEN "exited"
                                       ELSE "spawn_error",
                           stdout |-> out.stdout,
                           reported |-> IF out.spawned
                                        THEN reported_missing(out.stdout)
                                        ELSE <<>>])
             /\ EndStep("validate", valid, valid)
    /\ lastFetch' = None /\ lastDl' = None
    /\ UNCHANGED <<platform, fs, FORCED_TO_UPDATE, UP_TO_UPDATE, call,
                   lastShims, https_proxy, proc>>

\* Lines 109-128: python -mvenv --upgrade-deps <venv_dir>.  A run that exits
\* non-zero may have created the directory already.
EnsureVenv ==
    /\ pc = "venv"
    /\ \E outcome \in SubprocessOutcomes, partial \in BOOLEAN :
         /\ fs' = CASE outcome = "exit_zero" ->
                         [fs EXCEPT !.self_dir = TRUE,
                                    !.self_files = @ \cup {"venv"}]
                    [] outcome = "exit_nonzero" /\ partial ->
                         [fs EXCEPT !.self_dir = TRUE]
                    [] OTHER -> fs
         /\ cmds' = Append(cmds, Ran(venv_cmd(https_proxy), outcome))
         /\ EndStep("venv", outcome = "exit_zero", subprocess_ok(outcome))
    /\ lastFetch' = None /\ lastDl' = None
    /\ UNCHANGED <<platform, FORCED_TO_UPDATE, UP_TO_UPDATE, call, lastShims,
                   https_proxy, proc>>

\* do_update, lines 139-159: pip install --upgrade pip
EnsurePip ==
    /\ pc = "pip"
    /\ \E outcome \in SubprocessOutcomes :
         /\ fs' = IF outcome = "exit_zero" /\ fs.self_dir
                  THEN [fs EXCEPT !.self_files = @ \cup {"pip"}] ELSE fs
         /\ cmds' = Append(cmds, Ran(pip_upgrade_cmd(https_proxy), outcome))
         /\ EndStep("pip", outcome = "exit_zero", subprocess_ok(outcome))
    /\ UNCHANGED <<platform, FORCED_TO_UPDATE, UP_TO_UPDATE, call, lastFetch,
                   lastShims, lastDl, https_proxy, proc>>

\* do_update, lines 160-182: the requirements file, then pip install -r
EnsureDeps ==
    /\ pc = "deps"
    /\ \E tempfile_ok \in BOOLEAN, outcome \in SubprocessOutcomes :
         LET installed == tempfile_ok /\ outcome = "exit_zero"
         IN  /\ fs' = IF installed /\ fs.self_dir
                      THEN [fs EXCEPT !.self_files = @ \cup {"deps"}] ELSE fs
             /\ cmds' = IF tempfile_ok
                        THEN Append(cmds,
                                    Ran(pip_install_cmd(https_proxy), outcome))
                        ELSE cmds
             /\ EndStep("deps", installed,
                        tempfile_ok /\ subprocess_ok(outcome))
    /\ UNCHANGED <<platform, FORCED_TO_UPDATE, UP_TO_UPDATE, call, lastFetch,
                   lastShims, lastDl, https_proxy, proc>>

\* do_update, lines 183-195: the shims folder, the managing executable, then
\* update_core_shims(&shims, &this)?
EnsureShims ==
    /\ pc = "shims"
    /\ \E mkdir_ok \in BOOLEAN, exe_ok \in BOOLEAN, io1 \in ShimIO,
          io2 \in ShimIO :
         LET dir == fs.shims_dir \/ mkdir_ok
             this == IF fs.shims_rye THEN RyeShim ELSE CurrentExe
             r == update_core_shims(platform, dir, fs.shims, this, io1, io2)
         IN  IF ~dir \/ (~fs.shims_rye /\ ~exe_ok)
             THEN /\ fs' = [fs EXCEPT !.shims_dir = dir]
                  /\ lastShims' = None
                  /\ Fail("shims")
             ELSE /\ fs' = [fs EXCEPT !.shims_dir = dir, !.shims = r.files]
                  /\ lastShims' = Some([this |-> this, before |-> fs.shims,
                                        r |-> r])
                  /\ EndStep("shims", r.ok, r.ok)
    /\ UNCHANGED <<platform, FORCED_TO_UPDATE, UP_TO_UPDATE, call, lastFetch,
                   lastDl, https_proxy, cmds, proc>>

\* fs::write(tool-version.txt, SELF_VERSION.to_string()): the file holds the
\* text, or the call failed before or after truncating the file.
write_marker(f, outcome) ==
    CASE outcome = "ok" /\ f.self_dir ->
           [f EXCEPT !.marker = Some(to_string(SELF_VERSION))]
      [] outcome = "failed_truncated" /\ f.self_dir ->
           [f EXCEPT !.marker = Some(<<>>)]
      [] OTHER -> f

\* The flag stored before the marker is written.
store_forced_before_write(written, forced) == TRUE

\* Line 133, reached only when the "?" of line 132 has not returned:
\* FORCED_TO_UPDATE.store(true)
store_forced(written, forced) == IF written THEN TRUE ELSE forced

\* Lines 132-135: the marker, then the flag, then Ok(venv_dir).
EnsureMarker ==
    /\ pc = "marker"
    /\ \E outcome \in {"ok", "failed", "failed_truncated"} :
         /\ fs' = write_marker(fs, outcome)
         /\ FORCED_TO_UPDATE' =
              store_forced(outcome = "ok" /\ fs.self_dir, FORCED_TO_UPDATE)
         /\ proc' = [proc EXCEPT !.wrote_marker =
                       @ \/ (outcome = "ok" /\ fs.self_dir)]
         /\ IF outcome = "ok" /\ fs.self_dir
            THEN /\ pc' = "idle"
                 /\ result' = "ok"
                 /\ hist' = [hist EXCEPT !.done = @ \cup {"marker"},
                                         !.last_ensure = "ok",
                                         !.bootstrapped = TRUE]
            ELSE Fail("marker")
    /\ lastShims' = None
    /\ UNCHANGED <<platform, UP_TO_UPDATE, call, lastFetch, lastDl,
                   https_proxy, cmds>>

(***************************************************************************)
(* The public functions called on their own, and a new process             *)
(***************************************************************************)
\* The requests fetch is called with besides SELF_PYTHON_VERSION.
FetchRequests ==
    { SELF_PYTHON_VERSION,
      [major |-> 3, minor |-> Some(10), patch |-> Some(9)],
      [major |-> 3, minor |-> Some(11), patch |-> None],
      [major |-> 3, minor |-> Some(9), patch |-> Some(16)],
      [major |-> 3, minor |-> Some(8), patch |-> Some(1)] }

\* fetch(version, output), called by a command of the tool.
Fetch ==
    /\ pc = "idle"
    /\ \E req \in FetchRequests, out \in Outputs, io \in FetchIO :
         LET r == fetch(req, out, fs.py, io)
         IN  /\ call' = [op |-> "fetch", output |-> out]
             /\ fs' = [fs EXCEPT !.py = r.py]
             /\ lastFetch' = Some([req |-> req, output |-> out,
                                   py0 |-> fs.py, r |-> r])
             /\ lastDl' = r.dl
             /\ result' = IF r.ok THEN "ok" ELSE "err"
    /\ lastShims' = None
    /\ UNCHANGED <<platform, FORCED_TO_UPDATE, UP_TO_UPDATE, pc, hist,
                   https_proxy, cmds, proc>>

\* The addresses download_url is called with on its own.
DownloadUrls ==
    { UrlSecure("b"), UrlPlain("b"),
      <<"h", "t", "t", "p", "s", ":", "/", "b">>,
      <<"H", "T", "T", "P", "S", ":", "/", "/", "b">>,
      <<"f", "t", "p", ":", "/", "/", "b">>, <<>> }

\* download_url(url, output), called by a command of the tool.
Download ==
    /\ pc = "idle"
    /\ \E url \in DownloadUrls, out \in Outputs, net \in NetOutcomes :
         LET r == download_url(url, net, https_proxy)
         IN  /\ call' = [op |-> "download_url", output |-> out]
             /\ lastDl' = Some(r)
             /\ result' = IF r.ok THEN "ok" ELSE "err"
    /\ lastFetch' = None /\ lastShims' = None
    /\ UNCHANGED <<platform, fs, FORCED_TO_UPDATE, UP_TO_UPDATE, pc, hist,
                   https_proxy, cmds, proc>>

\* update_core_shims(shims, this), called by a command of the tool (the shims
\* folder may not exist).
UpdateShims ==
    /\ pc = "idle"
    /\ \E this \in Exes, io1 \in ShimIO, io2 \in ShimIO :
         LET r == update_core_shims(platform, fs.shims_dir, fs.shims, this,
                                    io1, io2)
         IN  /\ call' = [op |-> "update_core_shims", output |-> "Normal"]
             /\ fs' = [fs EXCEPT !.shims = r.files]
             /\ lastShims' = Some([this |-> this, before |-> fs.shims,
                                   r |-> r])
             /\ result' = IF r.ok THEN "ok" ELSE "err"
    /\ lastFetch' = None /\ lastDl' = None
    /\ UNCHANGED <<platform, FORCED_TO_UPDATE, UP_TO_UPDATE, pc, hist,
                   https_proxy, cmds, proc>>

\* The process ends and the tool is started again: the statics are fresh, the
\* managed directory is as it was left.
StartProcess ==
    /\ pc = "idle"
    /\ FORCED_TO_UPDATE' = FALSE
    /\ UP_TO_UPDATE' = "uninit"
    /\ call' = NoCall
    /\ result' = "none"
    /\ lastFetch' = None /\ lastShims' = None /\ lastDl' = None
    /\ cmds' = <<>>
    /\ proc' = NoProc
    /\ UNCHANGED <<platform, fs, pc, hist, https_proxy>>

\* What something else than ensure_self_venv may leave in tool-version.txt: no
\* file, the version of an older tool, text that is no number, the current
\* version.
ForeignMarkers ==
    {None, Some(to_string(SELF_VERSION - 1)), Some(<<"x">>),
     Some(to_string(SELF_VERSION))}

\* tool-version.txt is changed from outside the process (by hand, by another
\* installation of the tool) while the self environment exists, between two
\* calls of ensure_self_venv.
EditMarker ==
    /\ pc = "idle"
    /\ fs.self_dir
    /\ \E m \in ForeignMarkers :
         /\ m # fs.marker
         /\ fs' = [fs EXCEPT !.marker = m]
    /\ UNCHANGED <<platform, FORCED_TO_UPDATE, UP_TO_UPDATE, pc, call, result,
                   hist, lastFetch, lastShims, lastDl, https_proxy, cmds, proc>>

\* The self-bootstrap: calls of ensure_self_venv in one process after another.
Next ==
    \/ CallEnsure
    \/ EnsureGate
    \/ EnsureFetch
    \/ EnsureValidate
    \/ EnsureVenv
    \/ EnsurePip
    \/ EnsureDeps
    \/ EnsureShims
    \/ EnsureMarker
    \/ StartProcess

Spec == Init /\ [][Next]_vars

\* The self-bootstrap on a linux machine where the marker file is also
\* changed from outside.
InitExt == Init /\ platform = "linux" /\ ~fs.shims_dir

NextExt == Next \/ EditMarker

SpecExt == InitExt /\ [][NextExt]_vars

\* The self-bootstrap on a linux machine behind an HTTPS proxy.
InitProxy ==
    InitEnv(ProxyConfigs \ {None}, {NoToolchains}) /\ platform = "linux"

SpecProxy == InitProxy /\ [][Next]_vars

\* fetch and download_url on a machine with no self environment yet.
InitFetch ==
    /\ InitEnv({None}, {NoToolchains, Delisted})
    /\ platform = "linux" /\ ~fs.self_dir /\ ~fs.shims_dir

NextFetch == Fetch \/ Download

SpecFetch == InitFetch /\ [][NextFetch]_vars

\* update_core_shims on each platform, before the first bootstrap.
InitShims == Init /\ ~fs.self_dir

NextShims == UpdateShims

SpecShims == InitShims /\ [][NextShims]_vars

(***************************************************************************)
(* Properties of the self-update gate (checked under Spec)                 *)
(***************************************************************************)
InSeq(e, seq) == \E i \in 1..Len(seq) : seq[i] = e

CurrentMarker == Some(<<"3">>)

\* The steps of a pass that come before the marker is written.
StepsBeforeMarker(os) ==
    {"fetch", "venv", "pip", "deps", "shims"}
    \cup (IF os = "linux" THEN {"validate"} ELSE {})

\* The steps of a pass that the claims call downstream steps.
FallibleSteps == {"fetch", "validate", "venv", "pip", "deps", "shims"}

\* C1: once the call of ensure_self_venv before this one has succeeded (in this
\* process or in an earlier one), the call returns Ok at the gate: no fetch, no
\* download, no subprocess step, no shim publication, and the managed directory
\* is left exactly as it was.
C1_SecondCallIsNoOp ==
    [][(pc = "gate" /\ hist.prev = "ok")
         => /\ pc' = "idle"
            /\ result' = "ok"
            /\ fs' = fs
            /\ hist'.done = {}
            /\ lastFetch' = None /\ lastDl' = None /\ lastShims' = None]_vars

\* A fresh process whose first call returned at the gate after an earlier
\* process had completed a pass: the marker written as to_string(SELF_VERSION)
\* was read back as SELF_VERSION.
C1_Witness ==
    /\ pc = "idle" /\ call.op = "ensure" /\ result = "ok"
    /\ hist.prev = "ok" /\ hist.bootstrapped /\ hist.done = {}
    /\ ~FORCED_TO_UPDATE /\ UP_TO_UPDATE = "true"

\* C2: the marker is written last.  The only step that makes tool-version.txt
\* hold SELF_VERSION is the last one of a pass in which fetch, the library
\* validation (on linux), the venv creation, the pip upgrade, the dependency
\* install and the shim publication have all succeeded; and wherever the marker
\* holds SELF_VERSION, the interpreter is installed and the environment holds
\* what the three subprocesses wrote.
C2_MarkerWrittenLast ==
    /\ [][(fs'.marker # fs.marker /\ fs'.marker = CurrentMarker)
            => /\ pc = "marker"
               /\ StepsBeforeMarker(platform) \subseteq hist.done]_vars
    /\ [](fs.marker = CurrentMarker
            => /\ hist.bootstrapped
               /\ fs.self_dir
               /\ {"venv", "pip", "deps"} \subseteq fs.self_files
               /\ fs.py[V3_10_9] = "installed")

\* A completed pass on linux.
C2_Witness ==
    /\ platform = "linux" /\ pc = "idle" /\ result = "ok"
    /\ fs.marker = CurrentMarker
    /\ hist.done = StepsBeforeMarker("linux") \cup {"marker"}

\* C3 as stated: a pass that fails at a downstream step returns with the marker
\* as it was when the call was entered and with the flag unset, and the next
\* call does not return at the gate.
C3_MarkerUntouched ==
    /\ (call.op = "ensure" /\ result = "err"
          /\ hist.last_ensure \in FallibleSteps)
         => (fs.marker = hist.marker0 /\ ~FORCED_TO_UPDATE)
    /\ (call.op = "ensure" /\ pc = "idle" /\ result = "ok"
          /\ hist.prev \in FallibleSteps)
         => hist.done = StepsBeforeMarker(platform) \cup {"marker"}

\* C3 as amended: a pass that fails at a downstream step returns with no marker
\* written: no marker file exists (a marker present at entry was deleted with
\* the stale environment), the flag is unset, and the next call does not return
\* at the gate: an Ok after a failed pass is the Ok of a full pass.
C3_FailedPassStaysStale ==
    /\ (call.op = "ensure" /\ result = "err"
          /\ hist.last_ensure \in FallibleSteps)
         => /\ fs.marker = None
            /\ (hist.marker0 # None => hist.dir0)
            /\ ~FORCED_TO_UPDATE
    /\ (call.op = "ensure" /\ pc = "idle" /\ result = "ok"
          /\ hist.prev \in FallibleSteps)
         => hist.done = StepsBeforeMarker(platform) \cup {"marker"}

\* A full pass that succeeded right after a pass that failed in the dependency
\* install, the failed pass having left its venv directory behind.
C3_Witness ==
    /\ call.op = "ensure" /\ pc = "idle" /\ result = "ok"
    /\ hist.prev = "deps" /\ hist.dir0 /\ hist.marker0 = None
    /\ hist.done = StepsBeforeMarker(platform) \cup {"marker"}

\* C4: when the self environment exists at entry and its marker is absent or is
\* not SELF_VERSION, the directory is removed whole before the reconstruction
\* starts: fetch starts with no self directory, no step of the pass sees a file
\* of the old environment, and the call returns Ok only from a full pass.
C4_StaleForcesRebuild ==
    (call.op = "ensure" /\ hist.dir0 /\ hist.marker0 # CurrentMarker)
      => /\ pc = "fetch" => (~fs.self_dir /\ fs.self_files = {}
                             /\ fs.marker = None)
         /\ pc \notin {"idle", "gate"} => fs.self_files \cap OldFiles = {}
         /\ (pc = "idle" /\ result = "ok")
              => /\ fs.self_files = {"venv", "pip", "deps"}
                 /\ hist.done = StepsBeforeMarker(platform) \cup {"marker"}

\* A rebuilt environment that replaced one left by an older tool.
C4_Witness ==
    /\ call.op = "ensure" /\ pc = "idle" /\ result = "ok"
    /\ hist.dir0 /\ hist.marker0 = Some(<<"2">>)
    /\ fs.self_files = {"venv", "pip", "deps"} /\ fs.marker = CurrentMarker

(***************************************************************************)
(* Properties of the in-process state (checked under SpecExt and Spec)     *)
(***************************************************************************)
\* C17: the marker file is read at most once in a process, at the first call
\* of is_up_to_date: what was read then is kept for the rest of the process,
\* whatever becomes of the file.  Once a pass has succeeded in the process,
\* every later gate check returns Ok at the gate and leaves the managed
\* directory alone, whatever the file then contains.
C17_MarkerReadOnce ==
    /\ [](proc.marker_reads <= 1)
    /\ [][(UP_TO_UPDATE # "uninit" /\ call' # NoCall)
            => /\ UP_TO_UPDATE' = UP_TO_UPDATE
               /\ proc'.marker_reads = proc.marker_reads]_vars
    /\ [][(pc = "gate" /\ pc' # "gate" /\ proc.wrote_marker)
            => /\ pc' = "idle" /\ result' = "ok"
               /\ fs' = fs
               /\ proc'.marker_reads <= 1]_vars

\* A process that found a stale environment, rebuilt it, and whose later call
\* returned at the gate although the marker had by then been overwritten with
\* text that is no number.
C17_Witness ==
    /\ proc.wrote_marker /\ proc.marker_reads = 1 /\ UP_TO_UPDATE = "false"
    /\ call.op = "ensure" /\ pc = "idle" /\ result = "ok" /\ hist.done = {}
    /\ fs.marker = Some(<<"x">>)

\* C18: FORCED_TO_UPDATE is true only if ensure_self_venv has, earlier in the
\* same process, written the marker with SELF_VERSION.  The step that sets it
\* is the one whose write of the marker succeeded, at the end of a complete
\* pass; no step whose write failed, and no step that writes no marker, sets
\* it; and nothing in the process sets it back to false.
C18_ForcedOnlyAfterWrite ==
    /\ [](FORCED_TO_UPDATE => proc.wrote_marker)
    /\ [][(~FORCED_TO_UPDATE /\ FORCED_TO_UPDATE')
            => /\ pc = "marker"
               /\ fs'.marker = CurrentMarker
               /\ StepsBeforeMarker(platform) \subseteq hist.done
               /\ result' = "ok"]_vars
    /\ [][(FORCED_TO_UPDATE /\ call' # NoCall) => FORCED_TO_UPDATE']_vars

\* A process that rebuilt the environment and in which a later call has
\* returned at the gate: the flag is still set.
C18_Witness ==
    /\ FORCED_TO_UPDATE /\ proc.wrote_marker /\ proc.marker_reads = 1
    /\ fs.marker = CurrentMarker
    /\ call.op = "ensure" /\ pc = "idle" /\ result = "ok" /\ hist.done = {}

(***************************************************************************)
(* Properties of the environment build (checked under Spec and SpecProxy)  *)
(***************************************************************************)
\* The subprocesses of a pass that install packages: the venv creation (with
\* --upgrade-deps), the pip self-upgrade, the install of the pinned requirements.
InstallCmds == {"venv", "pip_upgrade", "pip_install"}

\* C13: when an HTTPS proxy is configured, the transfer of download_url is
\* given the proxy, and every dependency-installation subprocess of the pass
\* (venv creation, pip self-upgrade, pinned requirements install) is run with
\* the proxy in its environment.
C13_ProxyEverywhere ==
    https_proxy # None
      => /\ \A d \in lastDl : d.netio => d.proxy = https_proxy
         /\ \A i \in 1..Len(cmds) :
              cmds[i].cmd.prog \in InstallCmds
                => cmds[i].cmd.proxy = https_proxy

\* The package-installing subprocesses the current call has run, in order.
InstallRuns == SelectSeq(cmds, LAMBDA c : c.cmd.prog \in InstallCmds)

\* C14: no partial-success continuation.  The subprocess steps run in the order
\* venv creation, pip upgrade, requirements install, and the shim publication
\* and the marker write come only after all three have exited zero; when one
\* of the three cannot be spawned or exits non-zero it is the last step of the
\* call: ensure_self_venv has returned an error, no later subprocess was run,
\* no shim was published and no marker was written.
C14_NoPartialContinuation ==
    LET runs == InstallRuns
        order == <<"venv", "pip_upgrade", "pip_install">>
        all_ok == Len(runs) = 3 /\ \A i \in 1..3 : runs[i].outcome = "exit_zero"
    IN  /\ Len(runs) <= 3
        /\ \A i \in 1..Len(runs) : runs[i].cmd.prog = order[i]
        /\ \A i \in 1..Len(runs) :
             runs[i].outcome # "exit_zero"
               => /\ i = Len(runs)
                  /\ pc = "idle" /\ result = "err"
                  /\ lastShims = None
                  /\ hist.done \cap {"shims", "marker"} = {}
                  /\ fs.marker # CurrentMarker
                  /\ ~proc.wrote_marker
        /\ (call.op = "ensure"
              /\ (pc \in {"shims", "marker"} \/ lastShims # None
                    \/ hist.done \cap {"shims", "marker"} # {}))
             => all_ok

\* A pass whose venv creation and pip upgrade exited zero and whose
\* requirements install exited non-zero.
C14_Witness ==
    /\ Len(InstallRuns) = 3
    /\ InstallRuns[2].outcome = "exit_zero"
    /\ InstallRuns[3] = Ran(pip_install_cmd(https_proxy), "exit_nonzero")
    /\ pc = "idle" /\ result = "err" /\ hist.last_ensure = "deps"
    /\ {"venv", "pip"} \subseteq fs.self_files /\ fs.marker = None

\* C19: a failed refresh does not preserve the old environment.  When the
\* call finds a self environment that is not current, the self directory and
\* the pip-tools directory (if there is one) are gone when fetch starts; and
\* when a later step fails, the call returns the error with nothing restored:
\* no marker, no pip-tools directory, and in the self directory (if the venv
\* step has made a new one) only what the steps of this pass have written.
C19_FailedRefreshLosesOld ==
    (call.op = "ensure" /\ hist.dir0 /\ hist.marker0 # CurrentMarker)
      => /\ pc = "fetch" => (~fs.self_dir /\ ~fs.pip_tools)
         /\ (pc = "idle" /\ result = "err"
               /\ hist.last_ensure \in FallibleSteps \cup {"marker"})
              => /\ ~fs.pip_tools
                 /\ fs.marker \in {None, Some(<<>>)}
                 /\ fs.marker # None => hist.last_ensure = "marker"
                 /\ fs.self_files \subseteq hist.done
                 /\ fs.self_files \cap OldFiles = {}
                 /\ hist.last_ensure \in {"fetch", "validate"}
                      => ~fs.self_dir

\* A refresh of an environment built by an older tool, with a pip-tools
\* directory, that failed in the download: neither directory is left.
C19_Witness ==
    /\ call.op = "ensure" /\ pc = "idle" /\ result = "err"
    /\ hist.last_ensure = "fetch"
    /\ hist.dir0 /\ hist.pip_tools0 /\ hist.marker0 = Some(<<"2">>)
    /\ ~fs.self_dir /\ ~fs.pip_tools /\ fs.marker = None
    /\ \E x \in lastFetch : \E d \in x.r.dl : ~d.ok

(***************************************************************************)
(* Properties of the library validation (checked under Spec, on linux)     *)
(***************************************************************************)
\* The name of a line of the form "<name> => not found" (surrounded by any
\* white space), if the line has that form.
NameNotFound(line) ==
    LET t == trim(line)
        tail == Arrow \o NotFound
        n == Len(t) - Len(tail)
    IN  IF n >= 0 /\ SubSeq(t, n + 1, Len(t)) = tail
        THEN Some(SubSeq(t, 1, n)) ELSE None

\* The names an output reports as not found.
NamesNotFound(stdout) ==
    UNION {NameNotFound(stdout[i]) : i \in 1..Len(stdout)}

\* The runs of ldd of the current call that produced an output.
LddExited == {i \in 1..Len(cmds) : /\ cmds[i].cmd.prog = "ldd"
                                    /\ cmds[i].outcome = "exited"}

BuildOf(req) == get_download_url(req)

\* The version a request stands for: itself when fully specified, else the
\* version of the build it resolves to.
TargetOf(req) ==
    IF req.minor # None /\ req.patch # None
    THEN Some([major |-> req.major, minor |-> Get(req.minor),
               patch |-> Get(req.patch)])
    ELSE {b.version : b \in BuildOf(req)}

\* The fetch treated the version as already installed.
CacheHit(x) == InSeq("cache_hit", x.r.events)

\* The bytes a fetch downloaded, if its download succeeded.
Downloaded(x) == {Get(d.bytes) : d \in {d \in x.r.dl : d.ok}}

\* C5: when the build carries an expected sha256 and the digest of the
\* downloaded bytes differs from it, fetch fails, unpack_archive is not called,
\* and the interpreter binary of the version is not installed by that fetch.
C5_IntegrityEnforced ==
    \A x \in lastFetch : \A b \in BuildOf(x.req) : \A bytes \in Downloaded(x) :
      (b.sha256 # None /\ Sha256Hex(bytes) # Get(b.sha256))
        => /\ ~x.r.ok
           /\ ~InSeq("unpack_archive", x.r.events)
           /\ x.r.py[b.version] # "installed"
           /\ fs.py[b.version] # "installed"

\* A fetch of 3.10 that received other bytes than the build's.
C5_Witness ==
    \E x \in lastFetch : \E b \in BuildOf(x.req) : \E bytes \in Downloaded(x) :
      /\ b.sha256 = Some("9f3a") /\ bytes = "tampered"
      /\ InSeq("check_hash", x.r.events) /\ ~x.r.ok
      /\ fs.py[V3_10_9] = "dir"

\* C6: fetch skips download and extraction exactly when the install directory
\* of the version exists and the interpreter binary exists in it; then it
\* returns Ok and changes nothing.  A directory without the binary is never a
\* cache hit: for a known build, fetch goes on to download_url.
C6_CompletionSignal ==
    \A x \in lastFetch : \A v \in TargetOf(x.req) :
      /\ CacheHit(x) <=> (x.py0[v] # "absent" /\ x.py0[v] = "installed")
      /\ CacheHit(x) => (x.r.ok /\ x.r.py = x.py0 /\ x.r.dl = None
                         /\ x.r.events = <<"cache_hit">>)
      /\ (x.py0[v] = "dir" /\ BuildOf(x.req) # None)
           => (~CacheHit(x) /\ InSeq("download_url", x.r.events)
               /\ x.r.dl # None)

\* A fetch that found the directory without the binary (left by a failed
\* fetch), downloaded again and installed.
C6_Witness ==
    \E x \in lastFetch :
      /\ x.py0[V3_10_9] = "dir" /\ x.req = SELF_PYTHON_VERSION
      /\ ~CacheHit(x) /\ x.r.ok /\ fs.py[V3_10_9] = "installed"
      /\ InSeq("unpack_archive", x.r.events)

\* C7: for every address that does not start with "https://", download_url
\* returns an error, performs no transfer and returns no bytes.
C7_InsecureRejected ==
    \A d \in lastDl :
      (Len(d.url) < 8 \/ SubSeq(d.url, 1, 8) # HttpsScheme)
        => (~d.ok /\ ~d.netio /\ d.bytes = None)

\* download_url called with a plain-http address.
C7_Witness ==
    \E d \in lastDl :
      /\ d.url = UrlPlain("b") /\ call.op = "download_url"
      /\ ~d.ok /\ ~d.netio /\ result = "err"

\* The statements of C8 that hold in every verbosity: with no expected digest
\* and the bytes downloaded, fetch goes on to unpack_archive, calls no
\* check_hash and prints no "Checking hash".
NoDigestProceeds(x) ==
    /\ InSeq("unpack_archive", x.r.events)
    /\ ~InSeq("check_hash", x.r.events)
    /\ ~InSeq("Checking hash", x.r.msgs)

C11_DirCreatedJustBeforeExtraction ==
    \A x \in lastFetch :
      /\ \A i, j \in 1..Len(x.r.events) :
           (x.r.events[i] = "create_dir_all"
              /\ x.r.events[j] \in {"download_url", "check_hash"}) => j < i
      /\ (~x.r.ok /\ InSeq("download_url", x.r.events)
            /\ ~InSeq("unpack_archive", x.r.events)) => x.r.py = x.py0


\* The fetch called unpack_archive and the call failed.
ExtractionFailed(x) == InSeq("unpack_archive", x.r.events) /\ ~x.r.ok

\* C12: a partial extraction is never taken for a complete install.  When
\* unpack_archive fails, the binary of the version is not at its path; a fetch
\* of that version that follows downloads again and, if it returns Ok, has
\* extracted again; and a directory without the binary gets its binary only
\* from a fetch that downloaded and extracted.
C12_PartialNeverComplete ==
    /\ [](\A x \in lastFetch : \A b \in BuildOf(x.req) :
            ExtractionFailed(x) => ~py_bin_is_file(fs.py, b.version))
    /\ [][\A x \in lastFetch : \A y \in lastFetch' :
            (ExtractionFailed(x) /\ lastFetch' # lastFetch
               /\ BuildOf(y.req) = BuildOf(x.req))
              => /\ ~CacheHit(y)
                 /\ InSeq("download_url", y.r.events)
                 /\ y.r.ok => InSeq("unpack_archive", y.r.events)]_vars
    /\ [][\A v \in Versions :
            (fs.py[v] = "dir" /\ fs'.py[v] = "installed")
              => \E y \in lastFetch' :
                   /\ y.r.ok /\ y.r.version = Some(v) /\ Downloaded(y) # {}
                   /\ InSeq("unpack_archive", y.r.events)]_vars

\* A fetch of 3.11 that found the directory without the binary, downloaded
\* again, and whose extraction failed: the binary is still not there.
C12_Witness ==
    \E x \in lastFetch :
      /\ x.py0[V3_11_1] = "dir" /\ ExtractionFailed(x)
      /\ Downloaded(x) = {"cpython-3.11.1.tar"}
      /\ fs.py[V3_11_1] = "dir"

\* C16: an unknown version is terminal and without side effect.  When the
\* known-builds table has no build matching the request, and the request is not
\* a fully specified version that is installed already, fetch returns an
\* error, creates no install directory, makes no download and looks nothing
\* up a second time.
C16_UnknownVersionTerminal ==
    \A x \in lastFetch :
      (BuildOf(x.req) = None
         /\ \A v \in try_from(x.req) : ~py_bin_is_file(x.py0, v))
        => /\ ~x.r.ok /\ x.r.version = None /\ result = "err"
           /\ x.r.py = x.py0 /\ fs.py = x.py0
           /\ x.r.dl = None /\ lastDl = None
           /\ x.r.events = <<>>

\* A fetch of 3.8.1, which no build matches and which is not installed.
C16_Witness ==
    \E x \in lastFetch :
      /\ try_from(x.req) = Some(V3_8_1) /\ BuildOf(x.req) = None
      /\ x.py0[V3_8_1] = "absent" /\ fs.py[V3_8_1] = "absent"
      /\ ~x.r.ok /\ result = "err" /\ lastDl = None

(***************************************************************************)
(* Properties of update_core_shims (checked under SpecShims)               *)
(***************************************************************************)
\* The two entrypoint names of the platform.
EntryPoints ==
    IF platform = "windows" THEN {"python.exe", "pythonw.exe"}
    ELSE {"python", "python3"}

\* C9: after update_core_shims returns Ok, each of the two entrypoint names of
\* the platform is a link to the executable passed in, whatever was at the shim
\* paths before (nothing, a link to the same executable, a link to another one).
C9_ShimsResolve ==
    \A x \in lastShims :
      x.r.ok => \A n \in EntryPoints :
                  /\ fs.shims[n] # None
                  /\ \A f \in fs.shims[n] :
                       f.target = x.this /\ f.kind \in {"symlink", "hard_link"}

\* A publication that replaced two shims linked to another executable.
C9_Witness ==
    \E x \in lastShims :
      /\ x.r.ok
      /\ \A n \in EntryPoints :
           /\ \E f \in x.before[n] : f.target # x.this
           /\ \E f \in fs.shims[n] : f.target = x.this

\* The link calls made for shim n, in order.
AttemptsFor(x, n) ==
    LET idx == {i \in 1..Len(x.r.attempts) : x.r.attempts[i].shim = n}
    IN  [k \in 1..Cardinality(idx) |->
           x.r.attempts[CHOOSE i \in idx :
                          Cardinality({j \in idx : j <= i}) = k]]

\* The calls made for one shim follow the order given: each call but the last
\* failed, and a call that succeeded is the last.
FollowsOrder(att, order) ==
    /\ Len(att) <= Len(order)
    /\ \A k \in 1..Len(att) :
         /\ att[k].strategy = order[k]
         /\ k < Len(att) => ~att[k].ok

\* All the strategies of the order were tried for the shim and failed.
AllFailed(att, order) ==
    Len(att) = Len(order) /\ \A k \in 1..Len(att) : ~att[k].ok

\* C10 as stated: on every platform, a symbolic link is attempted first and a
\* hard link only if that failed; the call fails only if both failed for a
\* shim.
C10_SymlinkFirstEverywhere ==
    \A x \in lastShims :
      /\ \A n \in EntryPoints :
           FollowsOrder(AttemptsFor(x, n), <<"symlink", "hard_link">>)
      /\ ~x.r.ok => \E n \in EntryPoints :
                      AllFailed(AttemptsFor(x, n), <<"symlink", "hard_link">>)

\* The order update_core_shims follows on each platform.
OrderOn(os) ==
    CASE os = "windows" -> <<"symlink", "hard_link">>
      [] os = "linux" -> <<"hard_link", "symlink">>
      [] OTHER -> <<"symlink">>

\* C10 as amended: on windows a symbolic link is attempted first and a hard
\* link only if that failed; on linux a hard link is attempted first and a
\* symbolic link only if that failed; on the other unix platforms only a
\* symbolic link is attempted.  The call fails only if every strategy of the
\* platform failed for a shim, and it returns Ok only if a link was made for
\* both.
C10_OrderPerPlatform ==
    \A x \in lastShims :
      /\ \A n \in EntryPoints :
           FollowsOrder(AttemptsFor(x, n), OrderOn(platform))
      /\ ~x.r.ok => \E n \in EntryPoints :
                      AllFailed(AttemptsFor(x, n), OrderOn(platform))
      /\ x.r.ok => \A n \in EntryPoints :
                     /\ AttemptsFor(x, n) # <<>>
                     /\ AttemptsFor(x, n)[Len(AttemptsFor(x, n))].ok

\* On linux, a publication whose hard link failed for the primary name and whose
\* symbolic link then succeeded.
C10_Witness ==
    \E x \in lastShims :
      /\ platform = "linux" /\ x.r.ok
      /\ Len(AttemptsFor(x, "python")) = 2
      /\ AttemptsFor(x, "python")[1] =
           [shim |-> "python", strategy |-> "hard_link", ok |-> FALSE]
      /\ AttemptsFor(x, "python")[2].strategy = "symlink"
      /\ \E f \in fs.shims["python"] : f.kind = "symlink"

\* The primary and the aliased entrypoint name of the platform.
Primary == ShimNames(platform)[1]
Aliased == ShimNames(platform)[2]

\* Every link strategy of the platform was tried for the aliased name and
\* failed.
AliasedFailed(x) == AllFailed(AttemptsFor(x, Aliased), OrderOn(platform))

\* The primary name was handled completely before the aliased one: every link
\* call for it comes before every link call for the aliased name, the last one
\* succeeded, and the primary shim is a link to the executable passed in.
PrimaryDone(x) ==
    /\ \A i \in 1..Len(x.r.attempts) : \A j \in 1..Len(x.r.attempts) :
         (x.r.attempts[i].shim = Primary /\ x.r.attempts[j].shim = Aliased)
           => i < j
    /\ AttemptsFor(x, Primary) # <<>>
    /\ AttemptsFor(x, Primary)[Len(AttemptsFor(x, Primary))].ok
    /\ \E f \in fs.shims[Primary] : f.target = x.this

\* C20 as stated: when linking the aliased name fails with every strategy,
\* update_core_shims returns an error with the primary shim already a link to
\* the new executable, and with the previous file of the aliased shim removed
\* and not replaced.
C20_AliasedRemoved ==
    \A x \in lastShims :
      AliasedFailed(x)
        => /\ ~x.r.ok /\ result = "err"
           /\ PrimaryDone(x)
           /\ fs.shims[Aliased] = None

\* C20 as amended: when linking the aliased name fails with every strategy,
\* update_core_shims returns an error with the primary shim already a link to
\* the new executable, and with no new link at the aliased name: its previous
\* file has been removed and not replaced or, when the removal failed (its
\* error is dropped), is still there as it was.
C20_AliasedNotReplaced ==
    \A x \in lastShims :
      AliasedFailed(x)
        => /\ ~x.r.ok /\ result = "err"
           /\ PrimaryDone(x)
           /\ fs.shims[Aliased] \in {None, x.before[Aliased]}
           /\ fs.shims[Aliased] # None
                => \A k \in 1..Len(AttemptsFor(x, Aliased)) :
                     ~AttemptsFor(x, Aliased)[k].ok

\* A publication that replaced the primary shim, removed the aliased shim
\* (both linked to another executable before) and could not link the aliased
\* name.
C20_Witness ==
    \E x \in lastShims :
      /\ AliasedFailed(x) /\ result = "err"
      /\ \E f \in x.before[Primary] : f.target # x.this
      /\ \E f \in x.before[Aliased] : f.target # x.this
      /\ \E f \in fs.shims[Primary] : f.target = x.this
      /\ fs.shims[Aliased] = None

=============================================================================
